---- MODULE Spec2Model ----
(***************************************************************************)
(* InferResponse (src/src/infer_response.cc): the response value, its      *)
(* shared-memory codec, output pruning, the delivery pipeline (Send) and   *)
(* the deferred completion (DeferredSendCallback).                         *)
(*                                                                         *)
(* Two response objects are modelled.  `stub` is built by one of the two   *)
(* public constructors and serialized with SaveToSharedMemory; `srv` is    *)
(* built by LoadFromSharedMemory and delivered with Send, which exists     *)
(* only in the build without TRITON_PB_STUB (line 207).                    *)
(***************************************************************************)
EXTENDS Integers, Sequences, FiniteSets, TLC

\* ------------------------------------------------------------------ bounds
MaxOutputs == 2      \* longest output list handed to a constructor
MaxSends == 1        \* calls of Send in one behaviour (one delivery each)
MaxSaves == 1        \* calls of SaveToSharedMemory in one behaviour

\* ------------------------------------------------------------ value spaces
TensorNames == {"OUT0", "OUT1"}
SourceMemoryTypes == {"CPU", "GPU"}
BufferMemoryTypes == {"CPU", "CPU_PINNED", "GPU"}
Tensors == [name : TensorNames, memory_type : SourceMemoryTypes]
NullTensor == [name |-> "", memory_type |-> "nullptr"]

NullError == "<nullptr>"
ErrorMessages == {"user error"}
NullTensorMessage == "Output tensor for inference response should not be empty."
PlaceholderMessage == "Failed to retrieve the response error."
ErrorSaveFailed == "PbError::SaveToSharedMemory failed"
NoException == "<none>"

SeqsUpTo(S, n) == UNION {[1..k -> S] : k \in 0..n}
Range(s) == {s[i] : i \in 1..Len(s)}

\* One call of a collaborator, as recorded in trace.
Ev(call, arg) == [call |-> call, arg |-> arg]

\* The lines compiled only with TRITON_ENABLE_GPU are part of the modelled
\* build: it is the build in which GPU tensors and GPU buffers exist.
TRITON_ENABLE_GPU == TRUE

TRITONSERVER_RESPONSE_COMPLETE_FINAL == 1
FlagValues == {0, TRITONSERVER_RESPONSE_COMPLETE_FINAL}

VARIABLES
  stub,                       \* the response built by a public constructor
  srv,                        \* the response built by LoadFromSharedMemory
  arena,                      \* the shared-memory pool: handle h is arena[h]
  pc,                         \* position of SaveToSharedMemory in progress
  thrown,                     \* exception thrown by the last operation
  trace,                      \* collaborator calls made by the last operation
  last,                       \* the last operation, its inputs and pre-state
  nsend,                      \* number of Send calls so far (delivery ids)
  slot,                       \* delivery -> content of its wrapped error slot
  sent,                       \* delivery -> errors passed to ResponseSend
  released,                   \* delivery -> releases of the response factory
  ret,                        \* value returned by the last Send
  requires_deferred_callback, \* the caller's out-parameter of Send
  output_buffers,             \* the caller's descriptor list
  task,                       \* delivery -> what its send action captured
  saved                       \* the responses serialized so far, as they were

vars == <<stub, srv, arena, pc, thrown, trace, last, nsend, slot, sent,
          released, ret, requires_deferred_callback, output_buffers, task, saved>>

sendVars == <<nsend, slot, sent, released, ret, requires_deferred_callback,
              output_buffers, task>>

Deliveries == 1..MaxSends
NoTask == [response |-> FALSE, flags |-> 0, destruct_response_factor |-> FALSE]

\* ---------------------------------------------------------- response value
\* The members of a response; with_promise and retrieved are its history:
\* the constructor it was built by and whether GetNextResponse was called.
NoObject ==
  [st |-> "none", output_tensors_ |-> <<>>, error_ |-> NullError,
   error_handle |-> 0, next_response_future_ |-> FALSE, shm_handle_ |-> 0,
   deferred_send_callback_ |-> 0, with_promise |-> FALSE, retrieved |-> FALSE]

HasErrorNever(o) == FALSE

HasError(o) == o.error_ # NullError

OutputTensors(o) == o.output_tensors_

Error(o) == o.error_

ShmHandle(o) == o.shm_handle_

\* The loop of both public constructors: TRUE when it throws.
ConstructorThrowsFirstOnly(output_tensors) ==
  output_tensors # <<>> /\ output_tensors[1] = NullTensor

ConstructorThrows(output_tensors) ==
  \E i \in 1..Len(output_tensors) : output_tensors[i] = NullTensor

\* InferResponse(output_tensors, error) and
\* InferResponse(output_tensors, promise, error).
Constructor(output_tensors, error, with_promise) ==
  /\ stub.st = "none"
  /\ pc = "idle"
  /\ last' = [op |-> "InferResponse", output_tensors |-> output_tensors,
              with_promise |-> with_promise, arena_len |-> Len(arena)]
  /\ IF ConstructorThrows(output_tensors)
       THEN /\ thrown' = NullTensorMessage
            /\ stub' = stub
            /\ trace' = <<>>
       ELSE /\ thrown' = NoException
            /\ stub' = [NoObject EXCEPT
                          !.st = "live",
                          !.error_ = error,
                          !.output_tensors_ = output_tensors,
                          !.next_response_future_ = with_promise,
                          !.with_promise = with_promise]
            /\ trace' = IF with_promise THEN <<Ev("promise->get_future", 0)>>
                                        ELSE <<>>
  /\ UNCHANGED <<srv, arena, pc, saved, sendVars>>

\* ------------------------------------------------------------------ pruning
\* erase(it) followed by it++: the element after an erased one is not looked at
RECURSIVE EraseThenAdvance(_, _)
EraseThenAdvance(tensors, requested_output_names) ==
  IF tensors = <<>> THEN <<>>
  ELSE IF Head(tensors).name \notin requested_output_names
         THEN IF Tail(tensors) = <<>> THEN <<>>
              ELSE <<Head(Tail(tensors))>> \o
                   EraseThenAdvance(Tail(Tail(tensors)), requested_output_names)
         ELSE <<Head(tensors)>> \o
              EraseThenAdvance(Tail(tensors), requested_output_names)

\* a retained name is retained once
RECURSIVE EraseKeepingFirstOfName(_, _)
EraseKeepingFirstOfName(tensors, requested_output_names) ==
  IF tensors = <<>> THEN <<>>
  ELSE IF Head(tensors).name \notin requested_output_names
         THEN EraseKeepingFirstOfName(Tail(tensors), requested_output_names)
         ELSE <<Head(tensors)>> \o
              EraseKeepingFirstOfName(
                Tail(tensors), requested_output_names \ {Head(tensors).name})

\* The loop of lines 138-145.
RECURSIVE Erase(_, _)
Erase(tensors, requested_output_names) ==
  IF tensors = <<>> THEN <<>>
  ELSE IF Head(tensors).name \notin requested_output_names
         THEN Erase(Tail(tensors), requested_output_names)
         ELSE <<Head(tensors)>> \o Erase(Tail(tensors), requested_output_names)

Live(w) == IF w = "stub" THEN stub.st = "live" ELSE srv.st = "live"
Obj(w) == IF w = "stub" THEN stub ELSE srv

PruneOutputTensors(w, requested_output_names) ==
  /\ Live(w)
  /\ pc = "idle"
  /\ last' = [op |-> "PruneOutputTensors", who |-> w,
              requested_output_names |-> requested_output_names,
              output_tensors |-> Obj(w).output_tensors_]
  /\ IF w = "stub"
       THEN /\ stub' = [stub EXCEPT !.output_tensors_ =
                          Erase(@, requested_output_names)]
            /\ srv' = srv
       ELSE /\ srv' = [srv EXCEPT !.output_tensors_ =
                          Erase(@, requested_output_names)]
            /\ stub' = stub
  /\ thrown' = NoException
  /\ trace' = <<>>
  /\ UNCHANGED <<arena, pc, saved, sendVars>>

\* ---------------------------------------------------------- GetNextResponse
\* the future returned as a copy of the member, which keeps it
GetNextResponseKeepsFuture(w) ==
  /\ Live(w)
  /\ pc = "idle"
  /\ last' = [op |-> "GetNextResponse", who |-> w,
              returned |-> Obj(w).next_response_future_,
              retrieved |-> Obj(w).retrieved]
  /\ IF w = "stub"
       THEN /\ stub' = [stub EXCEPT !.retrieved = TRUE]
            /\ srv' = srv
       ELSE /\ srv' = [srv EXCEPT !.retrieved = TRUE]
            /\ stub' = stub
  /\ thrown' = NoException
  /\ trace' = <<>>
  /\ UNCHANGED <<arena, pc, saved, sendVars>>

\* return std::move(next_response_future_): the member is left null.
GetNextResponse(w) ==
  /\ Live(w)
  /\ pc = "idle"
  /\ last' = [op |-> "GetNextResponse", who |-> w,
              returned |-> Obj(w).next_response_future_,
              retrieved |-> Obj(w).retrieved]
  /\ IF w = "stub"
       THEN /\ stub' = [stub EXCEPT !.next_response_future_ = FALSE,
                                    !.retrieved = TRUE]
            /\ srv' = srv
       ELSE /\ srv' = [srv EXCEPT !.next_response_future_ = FALSE,
                                  !.retrieved = TRUE]
            /\ stub' = stub
  /\ thrown' = NoException
  /\ trace' = <<>>
  /\ UNCHANGED <<arena, pc, saved, sendVars>>

\* ------------------------------------------------------ shared-memory codec
ResponseRecords == {h \in 1..Len(arena) : arena[h].kind = "response"}

\* lines 90-96: the number of handles the record is allocated with after
\* its header.
TrailingLengthOfOutputs(o) == Len(o.output_tensors_)

TrailingLength(o) == IF HasError(o) THEN 0 ELSE Len(o.output_tensors_)

\* shm_pool->Construct<char>(size): fresh memory holds no defined value.  The
\* header fields are written at once (lines 100-101) or left as found:
\* outputs_size holds any value until line 112 or 117 writes it.
SaveBegin ==
  /\ stub.st = "live"
  /\ pc = "idle"
  /\ Cardinality(ResponseRecords) < MaxSaves
  /\ \E garbage \in 0..MaxOutputs :
       LET output_tensor_length == Len(stub.output_tensors_)
           trailing == TrailingLength(stub)
           rec == [kind |-> "response", has_error |-> FALSE,
                   is_error_set |-> FALSE, error |-> 0,
                   outputs_size |-> garbage,
                   handles |-> [i \in 1..trailing |-> 0]]
       IN /\ arena' = Append(arena, rec)
          /\ stub' = [stub EXCEPT !.shm_handle_ = Len(arena) + 1]
  /\ pc' = IF HasError(stub) THEN "L107" ELSE "L117"
  /\ last' = [op |-> "SaveToSharedMemory", output_tensors |-> stub.output_tensors_,
              error |-> stub.error_, arena_len |-> Len(arena)]
  /\ saved' = Append(saved, [handle |-> Len(arena) + 1,
                              output_tensors |-> stub.output_tensors_,
                              error |-> stub.error_, returned |-> FALSE])
  /\ thrown' = NoException
  /\ trace' = <<>>
  /\ UNCHANGED <<srv, sendVars>>

\* has_error written together with is_error_set, not before the error value
SaveLeavesHasErrorClear ==
  /\ pc = "L107"
  /\ pc' = "L108"
  /\ UNCHANGED <<arena, stub, srv, thrown, trace, last, saved, sendVars>>

\* line 107
SaveSetHasError ==
  /\ pc = "L107"
  /\ arena' = [arena EXCEPT ![stub.shm_handle_].has_error = TRUE]
  /\ pc' = "L108"
  /\ UNCHANGED <<stub, srv, thrown, trace, last, saved, sendVars>>

\* line 108: Error()->SaveToSharedMemory(shm_pool) allocates in the pool and
\* may fail there; the exception leaves SaveToSharedMemory.
SaveErrorValue ==
  /\ pc = "L108"
  /\ \/ /\ arena' = Append(arena, [kind |-> "error", message |-> stub.error_])
        /\ stub' = [stub EXCEPT !.error_handle = Len(arena) + 1]
        /\ pc' = "L110"
        /\ thrown' = thrown
     \/ /\ thrown' = ErrorSaveFailed
        /\ pc' = "idle"
        /\ UNCHANGED <<arena, stub>>
  /\ UNCHANGED <<srv, trace, last, saved, sendVars>>

SaveSetErrorOwnHandle ==
  /\ pc = "L110"
  /\ arena' = [arena EXCEPT ![stub.shm_handle_] =
                 [@ EXCEPT !.is_error_set = TRUE,
                           !.error = stub.shm_handle_,
                           !.outputs_size = 0]]
  /\ pc' = "idle"
  /\ saved' = [saved EXCEPT ![Len(saved)].returned = TRUE]
  /\ UNCHANGED <<stub, srv, thrown, trace, last, sendVars>>

\* lines 110-112
SaveSetError ==
  /\ pc = "L110"
  /\ arena' = [arena EXCEPT ![stub.shm_handle_] =
                 [@ EXCEPT !.is_error_set = TRUE,
                           !.error = stub.error_handle,
                           !.outputs_size = 0]]
  /\ pc' = "idle"
  /\ saved' = [saved EXCEPT ![Len(saved)].returned = TRUE]
  /\ UNCHANGED <<stub, srv, thrown, trace, last, sendVars>>

RECURSIVE SaveTensorsSameEntry(_, _, _, _)
SaveTensorsSameEntry(a, h, tensors, j) ==
  IF j > Len(tensors) THEN a
  ELSE LET written == Append(a, [kind |-> "tensor", tensor |-> tensors[j]])
       IN SaveTensorsSameEntry([written EXCEPT ![h].handles[1] = Len(written)],
                               h, tensors, j + 1)

\* The loop of lines 119-124 from output j on: each tensor is serialized
\* into the pool and its handle written to entry j of the trailing table.
RECURSIVE SaveTensors(_, _, _, _)
SaveTensors(a, h, tensors, j) ==
  IF j > Len(tensors) THEN a
  ELSE LET written == Append(a, [kind |-> "tensor", tensor |-> tensors[j]])
       IN SaveTensors([written EXCEPT ![h].handles[j] = Len(written)],
                      h, tensors, j + 1)

\* lines 114-124
SaveOutputs ==
  /\ pc = "L117"
  /\ arena' = SaveTensors(
       [arena EXCEPT ![stub.shm_handle_].outputs_size = Len(stub.output_tensors_)],
       stub.shm_handle_, stub.output_tensors_, 1)
  /\ pc' = "idle"
  /\ saved' = [saved EXCEPT ![Len(saved)].returned = TRUE]
  /\ UNCHANGED <<stub, srv, thrown, trace, last, sendVars>>

\* tensor_handle_shm[idx]: an index past the allocated record reads memory
\* the record does not own.
TrailingHandle(rec, idx) ==
  IF idx <= Len(rec.handles) THEN rec.handles[idx] ELSE 0

\* PbTensor::LoadFromSharedMemory(shm_pool, handle, open_cuda_handle)
LoadTensor(handle) ==
  IF handle \in 1..Len(arena) /\ arena[handle].kind = "tensor"
    THEN arena[handle].tensor
    ELSE NullTensor

\* PbError::LoadFromSharedMemory(shm_pool, handle): the loaded message
LoadError(handle) ==
  IF handle \in 1..Len(arena) /\ arena[handle].kind = "error"
    THEN arena[handle].message
    ELSE NullError

\* The branch of lines 164-178: the error, the outputs and the reads made.
LoadBranchesReadingHandles(rec) ==
  LET requested_output_count == rec.outputs_size
      handles == [idx \in 1..requested_output_count |-> TrailingHandle(rec, idx)]
  IN IF rec.has_error /\ rec.is_error_set
       THEN [pb_error |-> LoadError(rec.error),
             output_tensors |-> [idx \in 1..requested_output_count |->
                                   LoadTensor(handles[idx])],
             reads |-> <<Ev("PbError::LoadFromSharedMemory", rec.error)>> \o
                       [idx \in 1..requested_output_count |->
                          Ev("PbTensor::LoadFromSharedMemory", handles[idx])]]
       ELSE [pb_error |-> IF rec.has_error THEN PlaceholderMessage ELSE NullError,
             output_tensors |-> [idx \in 1..requested_output_count |->
                                   LoadTensor(handles[idx])],
             reads |-> [idx \in 1..requested_output_count |->
                          Ev("PbTensor::LoadFromSharedMemory", handles[idx])]]

LoadBranches(rec) ==
  LET requested_output_count == rec.outputs_size
  IN IF rec.has_error /\ rec.is_error_set
       THEN [pb_error |-> LoadError(rec.error),
             output_tensors |-> <<>>,
             reads |-> <<Ev("PbError::LoadFromSharedMemory", rec.error)>>]
     ELSE IF rec.has_error /\ ~rec.is_error_set
       THEN [pb_error |-> PlaceholderMessage,
             output_tensors |-> <<>>,
             reads |-> <<>>]
     ELSE [pb_error |-> NullError,
           output_tensors |-> [idx \in 1..requested_output_count |->
                                 LoadTensor(TrailingHandle(rec, idx))],
           reads |-> [idx \in 1..requested_output_count |->
                        Ev("PbTensor::LoadFromSharedMemory",
                           TrailingHandle(rec, idx))]]

\* LoadFromSharedMemory and the private constructor of lines 184-193.
LoadFromSharedMemory(response_handle) ==
  /\ srv.st = "none"
  /\ pc = "idle"
  /\ response_handle \in ResponseRecords
  /\ LET loaded == LoadBranches(arena[response_handle])
     IN /\ srv' = [NoObject EXCEPT
                     !.st = "live",
                     !.output_tensors_ = loaded.output_tensors,
                     !.error_ = loaded.pb_error,
                     !.shm_handle_ = response_handle]
        /\ trace' = loaded.reads
  /\ last' = [op |-> "LoadFromSharedMemory", response_handle |-> response_handle,
              record |-> arena[response_handle]]
  /\ thrown' = NoException
  /\ UNCHANGED <<stub, arena, pc, saved, sendVars>>

\* ------------------------------------------------------- delivery pipeline
\* What the serving runtime and the collaborators answer for one output
\* tensor: the call that fails (or "none"), the memory type of the buffer
\* TRITONBACKEND_OutputBuffer hands out, whether the buffer attributes hold
\* a CUDA IPC handle, and what CopyBuffer reports in cuda_used.
NoFailure == "none"
OutputCalls ==
  {"TRITONBACKEND_ResponseOutput", "TRITONBACKEND_OutputBuffer",
   "TRITONBACKEND_OutputBufferAttributes",
   "TRITONSERVER_BufferAttributesCudaIpcHandle", "PbMemory::Create",
   "CopyBuffer"}
Outcome(fail, actual_memory_type, ipc, cuda_used) ==
  [fail |-> fail, actual_memory_type |-> actual_memory_type, ipc |-> ipc,
   cuda_used |-> cuda_used]

\* The answers that differ in a call the iteration of a tensor with host
\* source makes (the buffer's memory type only reaches CopyBuffer) ...
HostOutcomes ==
  {Outcome(f, "CPU", FALSE, FALSE) :
     f \in {"TRITONBACKEND_ResponseOutput", "TRITONBACKEND_OutputBuffer",
            "TRITONBACKEND_OutputBufferAttributes", "CopyBuffer", NoFailure}}
  \cup {Outcome(NoFailure, "GPU", FALSE, TRUE)}

\* ... and of a tensor with GPU source.
GpuOutcomes ==
  {Outcome(f, "GPU", FALSE, FALSE) :
     f \in {"TRITONBACKEND_ResponseOutput", "TRITONBACKEND_OutputBuffer",
            "TRITONBACKEND_OutputBufferAttributes",
            "TRITONSERVER_BufferAttributesCudaIpcHandle"}}
  \cup {Outcome(f, "GPU", ipc, FALSE) :
          f \in {"PbMemory::Create", NoFailure}, ipc \in BOOLEAN}
  \cup {Outcome(f, m, FALSE, FALSE) :
          f \in {"PbMemory::Create", NoFailure}, m \in {"CPU", "CPU_PINNED"}}

OutcomesOf(t) == IF t.memory_type = "GPU" THEN GpuOutcomes ELSE HostOutcomes

NotReached == Outcome(NoFailure, "CPU", FALSE, FALSE)

\* One answer per output tensor; the outputs after a failing call are not
\* reached.
RECURSIVE Environments(_)
Environments(tensors) ==
  IF tensors = <<>> THEN {<<>>}
  ELSE LET first == OutcomesOf(Head(tensors))
           rest == Tail(tensors)
       IN {<<e>> \o r : e \in {x \in first : x.fail = NoFailure},
                        r \in Environments(rest)}
          \cup {<<e>> \o [i \in 1..Len(rest) |-> NotReached] :
                  e \in {x \in first : x.fail # NoFailure}}

\* SET_ERROR_AND_RETURN / SET_ERROR_AND_RETURN_IF_EXCEPTION around one call:
\* the call is made; when it fails the error goes to the wrapped error slot
\* and Send returns the slot.
SetErrorAndReturn(s, call, i, fails) ==
  IF s.returned THEN s
  ELSE IF fails
    THEN [s EXCEPT !.calls = Append(@, Ev(call, i)),
                   !.response_error = call,
                   !.returned = TRUE]
    ELSE [s EXCEPT !.calls = Append(@, Ev(call, i))]

\* output_buffers.push_back({std::move(output_buffer), buffer})
PushBack(s, descriptor) ==
  IF s.returned THEN s
  ELSE [s EXCEPT !.output_buffers = Append(@, descriptor)]

\* The copy_gpu argument PbMemory::Create takes when the call names none
\* (line 339-341): declared with PbMemory, the descriptor requires a copy.
PbMemoryCreateDefaultCopyGpu == TRUE

\* lines 313-328: the copy_gpu argument of PbMemory::Create for a GPU buffer,
\* given whether the buffer attributes hold a CUDA IPC handle.
CopyGpuWhateverHandle(cuda_ipc_mem_handle_p) == TRUE

CopyGpu(cuda_ipc_mem_handle_p) == ~cuda_ipc_mem_handle_p

\* lines 278-280
MarksEveryTensorDeferred(src_memory_type) == TRUE

MarksNoTensorDeferred(src_memory_type) == FALSE

MarksDeferred(src_memory_type) == src_memory_type = "GPU"

\* One iteration of the loop of lines 270-357 for output i.
SendOutput(s, i, t, e) ==
  LET src_memory_type == t.memory_type
      actual_memory_type == e.actual_memory_type
      s0 == [s EXCEPT !.requires_deferred_callback =
                        @ \/ MarksDeferred(src_memory_type)]
      s1 == SetErrorAndReturn(s0, "TRITONBACKEND_ResponseOutput", i,
                              e.fail = "TRITONBACKEND_ResponseOutput")
      s2 == SetErrorAndReturn(s1, "TRITONBACKEND_OutputBuffer", i,
                              e.fail = "TRITONBACKEND_OutputBuffer")
      s3 == SetErrorAndReturn(s2, "TRITONBACKEND_OutputBufferAttributes", i,
                              e.fail = "TRITONBACKEND_OutputBufferAttributes")
      \* lines 303-331
      s4 == IF src_memory_type = "GPU" /\ actual_memory_type = "GPU"
               /\ TRITON_ENABLE_GPU
              THEN PushBack(
                     SetErrorAndReturn(
                       SetErrorAndReturn(
                         s3, "TRITONSERVER_BufferAttributesCudaIpcHandle", i,
                         e.fail = "TRITONSERVER_BufferAttributesCudaIpcHandle"),
                       "PbMemory::Create", i, e.fail = "PbMemory::Create"),
                     [output |-> i, memory_type |-> actual_memory_type,
                      data_ptr |-> "buffer", copy_gpu |-> CopyGpu(e.ipc),
                      cuda_ipc_handle |-> e.ipc])
              ELSE s3
      \* lines 334-344
      s5 == IF src_memory_type = "GPU"
               /\ actual_memory_type \in {"CPU", "CPU_PINNED"}
              THEN PushBack(
                     SetErrorAndReturn(s4, "PbMemory::Create", i,
                                       e.fail = "PbMemory::Create"),
                     [output |-> i, memory_type |-> actual_memory_type,
                      data_ptr |-> "nullptr",
                      copy_gpu |-> PbMemoryCreateDefaultCopyGpu,
                      cuda_ipc_handle |-> FALSE])
              ELSE s4
      \* lines 346-354
      s6 == IF src_memory_type # "GPU"
              THEN SetErrorAndReturn(s5, "CopyBuffer", i, e.fail = "CopyBuffer")
              ELSE s5
      cuda_used == src_memory_type # "GPU" /\ e.cuda_used
  IN IF s6.returned THEN s6
     ELSE [s6 EXCEPT !.cuda_copy = @ \/ cuda_used]

RECURSIVE SendLoop(_, _, _, _)
SendLoop(s, tensors, env, i) ==
  IF i > Len(tensors) \/ s.returned THEN s
  ELSE SendLoop(SendOutput(s, i, tensors[i], env[i]), tensors, env, i + 1)

\* the stream synchronized also for the tensors left to the stub process
SynchronizeStreamWhenDeferred(s) ==
  IF ~s.returned /\ (s.cuda_copy \/ s.requires_deferred_callback)
    THEN [s EXCEPT !.calls = Append(@, Ev("cudaStreamSynchronize", 0))]
    ELSE s

\* lines 359-363
SynchronizeStream(s) ==
  IF ~s.returned /\ s.cuda_copy /\ TRITON_ENABLE_GPU
    THEN [s EXCEPT !.calls = Append(@, Ev("cudaStreamSynchronize", 0))]
    ELSE s

\* The return statement of the branch of lines 262-266: TRUE when the
\* returned shared pointer holds the wrapped error slot.
ErrorResponseReturnsSlot == FALSE

\* The body of Send from line 217 to its return statement, the scoped
\* actions not yet run.  registered: the send action of line 235 exists;
\* returns_slot: the returned shared pointer is the slot, otherwise null.
SendBody(o, response_given, factory_ok, env, buffers) ==
  LET start == [response_error |-> NullError, returned |-> FALSE,
                requires_deferred_callback |-> FALSE, cuda_copy |-> FALSE,
                calls |-> <<>>, output_buffers |-> buffers]
      \* lines 226-230
      created == IF response_given THEN start
                 ELSE SetErrorAndReturn(
                        start, "TRITONBACKEND_ResponseNewFromFactory", 0,
                        ~factory_ok)
  IN IF created.returned
       THEN [body |-> created, registered |-> FALSE, returns_slot |-> TRUE]
     ELSE IF HasError(o)
       THEN [body |-> [created EXCEPT !.response_error = Error(o),
                                      !.returned = TRUE],
             registered |-> TRUE,
             returns_slot |-> ErrorResponseReturnsSlot]
     ELSE [body |-> SynchronizeStream(
                      SendLoop(created, OutputTensors(o), env, 1)),
           registered |-> TRUE, returns_slot |-> TRUE]

\* lines 242-243: the send action takes the response factory into a
\* unique_ptr whose deleter releases it.
ReleasesFactoryWheneverFinal(flags, destruct_response_factor) ==
  flags = TRITONSERVER_RESPONSE_COMPLETE_FINAL

ReleasesFactory(flags, destruct_response_factor) ==
  flags = TRITONSERVER_RESPONSE_COMPLETE_FINAL /\ destruct_response_factor

\* The send action of lines 236-251 run for delivery d: the calls it makes.
SendActionCalls(d, flags, destruct_response_factor) ==
  <<Ev("TRITONBACKEND_ResponseSend", d)>> \o
  (IF ReleasesFactory(flags, destruct_response_factor)
     THEN <<Ev("ResponseFactoryDeleter", d)>>
     ELSE <<>>)

\* deferred_task (lines 255-260): TRUE when the send action is moved into
\* deferred_send_callback_ instead of running at the return of Send.
MovesSendActionAlways(requires_deferred) == TRUE

MovesSendAction(requires_deferred) == requires_deferred

\* the send action holding the error as it was when the action was created
RECURSIVE RunSendActionsWithErrorAtCreation(_, _)
RunSendActionsWithErrorAtCreation(st, fired) ==
  IF fired = <<>> THEN st
  ELSE LET d == Head(fired)
       IN RunSendActionsWithErrorAtCreation(
            [st EXCEPT
               !.sent[d] = Append(@, NullError),
               !.released[d] =
                  @ + (IF ReleasesFactory(st.task[d].flags,
                                          st.task[d].destruct_response_factor)
                        THEN 1 ELSE 0),
               !.calls = @ \o SendActionCalls(d, st.task[d].flags,
                                    st.task[d].destruct_response_factor)],
            Tail(fired))

\* Running the send actions in `fired` (in that order): the state they leave.
RECURSIVE RunSendActions(_, _)
RunSendActions(st, fired) ==
  IF fired = <<>> THEN st
  ELSE LET d == Head(fired)
       IN RunSendActions(
            [st EXCEPT
               !.sent[d] = Append(@, st.slot[d]),
               !.released[d] =
                  @ + (IF ReleasesFactory(st.task[d].flags,
                                          st.task[d].destruct_response_factor)
                        THEN 1 ELSE 0),
               !.calls = @ \o SendActionCalls(d, st.task[d].flags,
                                    st.task[d].destruct_response_factor)],
            Tail(fired))

Send(response_given, factory_ok, flags, env) ==
  /\ srv.st = "live"
  /\ pc = "idle"
  /\ nsend < MaxSends
  /\ LET d == nsend + 1
         r == SendBody(srv, response_given, factory_ok, env, output_buffers)
         moved == r.registered
                    /\ MovesSendAction(r.body.requires_deferred_callback)
         old == srv.deferred_send_callback_
         \* scope exit: deferred_task runs first (the move destroys the
         \* action stored before), then response_error_handling
         fired == (IF moved /\ old # 0 THEN <<old>> ELSE <<>>) \o
                  (IF r.registered /\ ~moved THEN <<d>> ELSE <<>>)
         before == [slot |-> [slot EXCEPT ![d] = r.body.response_error],
                    task |-> IF r.registered
                               THEN [task EXCEPT ![d] =
                                       [response |-> TRUE, flags |-> flags,
                                        destruct_response_factor |->
                                          ~response_given]]
                               ELSE task,
                    sent |-> sent, released |-> released,
                    calls |-> r.body.calls]
         after == RunSendActions(before, fired)
     IN /\ nsend' = d
        /\ slot' = after.slot
        /\ task' = after.task
        /\ sent' = after.sent
        /\ released' = after.released
        /\ trace' = after.calls
        /\ ret' = IF r.returns_slot THEN d ELSE 0
        /\ requires_deferred_callback' = r.body.requires_deferred_callback
        /\ output_buffers' = r.body.output_buffers
        /\ srv' = IF moved THEN [srv EXCEPT !.deferred_send_callback_ = d]
                           ELSE srv
        /\ last' = [op |-> "Send", d |-> d, response_given |-> response_given,
                    factory_ok |-> factory_ok, flags |-> flags, env |-> env,
                    output_buffers |-> output_buffers, registered |-> r.registered,
                    deferred_send_callback |-> old, srv |-> srv]
  /\ thrown' = NoException
  /\ UNCHANGED <<stub, arena, pc, saved>>

\* deferred_send_callback_.reset(): the stored action, if any, is destroyed
\* and runs.
ReleaseStoredOrLastAction(why) ==
  LET old == srv.deferred_send_callback_
      before == [slot |-> slot, task |-> task, sent |-> sent,
                 released |-> released, calls |-> <<>>]
      after == RunSendActions(before,
                 IF old # 0 THEN <<old>>
                 ELSE IF nsend > 0 /\ task[nsend].response THEN <<nsend>>
                 ELSE <<>>)
  IN /\ sent' = after.sent
     /\ released' = after.released
     /\ trace' = after.calls
     /\ last' = [op |-> why, deferred_send_callback |-> old, srv |-> srv,
                 sent |-> sent, released |-> released]
     /\ thrown' = NoException
     /\ UNCHANGED <<stub, arena, pc, saved, nsend, slot, task, ret,
                    requires_deferred_callback, output_buffers>>

ReleaseStored(why) ==
  LET old == srv.deferred_send_callback_
      before == [slot |-> slot, task |-> task, sent |-> sent,
                 released |-> released, calls |-> <<>>]
      after == RunSendActions(before, IF old # 0 THEN <<old>> ELSE <<>>)
  IN /\ sent' = after.sent
     /\ released' = after.released
     /\ trace' = after.calls
     /\ last' = [op |-> why, deferred_send_callback |-> old, srv |-> srv,
                 sent |-> sent, released |-> released]
     /\ thrown' = NoException
     /\ UNCHANGED <<stub, arena, pc, saved, nsend, slot, task, ret,
                    requires_deferred_callback, output_buffers>>

DeferredSendCallbackKeepsAction ==
  /\ srv.st = "live"
  /\ pc = "idle"
  /\ srv' = srv
  /\ ReleaseStored("DeferredSendCallback")

DeferredSendCallback ==
  /\ srv.st = "live"
  /\ pc = "idle"
  /\ srv' = [srv EXCEPT !.deferred_send_callback_ = 0]
  /\ ReleaseStored("DeferredSendCallback")

\* The response is destroyed: so is the send action it still holds, which
\* runs then (comment of lines 232-234).
Destroy ==
  /\ srv.st = "live"
  /\ pc = "idle"
  /\ srv' = [srv EXCEPT !.st = "destroyed", !.deferred_send_callback_ = 0]
  /\ ReleaseStored("~InferResponse")

\* The responses Send is called on: any response a constructor or
\* LoadFromSharedMemory builds, its tensors named by position.
NameAt(i) == IF i = 1 THEN "OUT0" ELSE "OUT1"
Responses ==
  {[NoObject EXCEPT !.st = "live",
                    !.output_tensors_ =
                       [i \in 1..Len(ms) |->
                          [name |-> NameAt(i), memory_type |-> ms[i]]],
                    !.error_ = e] :
     ms \in SeqsUpTo(SourceMemoryTypes, MaxOutputs),
     e \in {NullError} \cup ErrorMessages}

Init ==
  /\ stub = NoObject
  /\ srv = NoObject
  /\ arena = <<>>
  /\ pc = "idle"
  /\ thrown = NoException
  /\ trace = <<>>
  /\ last = [op |-> "none"]
  /\ nsend = 0
  /\ slot = [d \in Deliveries |-> NullError]
  /\ sent = [d \in Deliveries |-> <<>>]
  /\ released = [d \in Deliveries |-> 0]
  /\ ret = 0
  /\ requires_deferred_callback = FALSE
  /\ output_buffers = <<>>
  /\ task = [d \in Deliveries |-> NoTask]
  /\ saved = <<>>

Next ==
  \/ \E output_tensors \in SeqsUpTo(Tensors \cup {NullTensor}, MaxOutputs),
        error \in {NullError} \cup ErrorMessages, with_promise \in BOOLEAN :
       Constructor(output_tensors, error, with_promise)
  \/ \E w \in {"stub", "srv"}, names \in SUBSET TensorNames :
       PruneOutputTensors(w, names)
  \/ \E w \in {"stub", "srv"} : GetNextResponse(w)
  \/ SaveBegin
  \/ SaveSetHasError
  \/ SaveErrorValue
  \/ SaveSetError
  \/ SaveOutputs
  \/ \E h \in 1..Len(arena) : LoadFromSharedMemory(h)

Spec == Init /\ [][Next]_vars

\* The delivery pipeline on a response of the serving process.
InitSend ==
  /\ srv \in Responses
  /\ stub = NoObject
  /\ arena = <<>>
  /\ pc = "idle"
  /\ thrown = NoException
  /\ trace = <<>>
  /\ last = [op |-> "none"]
  /\ nsend = 0
  /\ slot = [d \in Deliveries |-> NullError]
  /\ sent = [d \in Deliveries |-> <<>>]
  /\ released = [d \in Deliveries |-> 0]
  /\ ret = 0
  /\ requires_deferred_callback = FALSE
  /\ output_buffers = <<>>
  /\ task = [d \in Deliveries |-> NoTask]
  /\ saved = <<>>

NextSend ==
  \/ \E response_given \in BOOLEAN, factory_ok \in BOOLEAN,
        flags \in FlagValues, env \in Environments(srv.output_tensors_) :
       /\ response_given => factory_ok
       /\ ~factory_ok => env = [i \in 1..Len(env) |-> NotReached]
       /\ Send(response_given, factory_ok, flags, env)
  \/ DeferredSendCallback
  \/ Destroy

SendSpec == InitSend /\ [][NextSend]_vars

\* ------------------------------------------------------------------ claims
Calls(name) == SelectSeq(trace, LAMBDA e : e.call = name)
SendCalls(d) ==
  SelectSeq(trace, LAMBDA e : e = Ev("TRITONBACKEND_ResponseSend", d))
ChannelObtained == last.response_given \/ last.factory_ok
NoCallFailed ==
  ChannelObtained /\ \A i \in 1..Len(last.env) : last.env[i].fail = NoFailure
SentOnce(d) == sent[d] = <<slot[d]>>

\* C1 as stated: on every exit path of Send the send is dispatched, at the
\* return of Send when no deferral is required and by the stored action
\* otherwise.
C1_EveryExitPathDispatches ==
  last.op = "Send" =>
    IF requires_deferred_callback
      THEN srv.deferred_send_callback_ = last.d
      ELSE Len(sent[last.d]) = 1

\* C1 amended: on every exit path of Send taken once the channel exists
\* (handed in, or created from the factory) the send is dispatched exactly
\* once: at the return of Send when no deferral is required, otherwise by
\* the action stored on the response, which DeferredSendCallback runs.  A
\* Send whose channel creation fails dispatches nothing.
C1_ExitPathsWithChannelDispatch ==
  /\ \A d \in 1..nsend :
       IF task[d].response
         THEN \/ SentOnce(d) /\ srv.deferred_send_callback_ # d
              \/ /\ sent[d] = <<>>
                 /\ srv.st = "live"
                 /\ srv.deferred_send_callback_ = d
         ELSE sent[d] = <<>> /\ srv.deferred_send_callback_ # d
  /\ last.op = "Send" =>
       /\ task[last.d].response = ChannelObtained
       /\ (ChannelObtained /\ ~requires_deferred_callback)
          => (SentOnce(last.d) /\ Len(SendCalls(last.d)) = 1)
       /\ (ChannelObtained /\ requires_deferred_callback)
          => (srv.deferred_send_callback_ = last.d /\ SendCalls(last.d) = <<>>)
  /\ (last.op = "DeferredSendCallback" /\ last.deferred_send_callback # 0)
     => /\ SentOnce(last.deferred_send_callback)
        /\ Len(SendCalls(last.deferred_send_callback)) = 1

\* A deferred delivery that ended on a failing call has been dispatched by
\* DeferredSendCallback, carrying the failure.
C1_Witness ==
  /\ last.op = "DeferredSendCallback"
  /\ last.deferred_send_callback = 1
  /\ sent[1] = <<"PbMemory::Create">>

\* C2: the send action of one Send is consumed at most once: it is never
\* both executed and still stored on the response, and a
\* DeferredSendCallback on a response whose action has fired sends nothing.
C2_SendActionConsumedAtMostOnce ==
  /\ \A d \in Deliveries :
       /\ Len(sent[d]) <= 1
       /\ released[d] <= 1
       /\ Len(sent[d]) = 1 => srv.deferred_send_callback_ # d
  /\ (last.op = "DeferredSendCallback" /\ last.deferred_send_callback = 0)
     => trace = <<>>

\* A further DeferredSendCallback after the deferred action has fired.
C2_Witness ==
  /\ last.op = "DeferredSendCallback"
  /\ last.deferred_send_callback = 0
  /\ requires_deferred_callback
  /\ task[1].response
  /\ Len(sent[1]) = 1

\* Send allocated a host buffer for output i, whose source is GPU memory.
GpuSourceHostBuffer(i) ==
  /\ last.srv.output_tensors_[i].memory_type = "GPU"
  /\ last.env[i].actual_memory_type \in {"CPU", "CPU_PINNED"}
  /\ Ev("TRITONBACKEND_OutputBufferAttributes", i) \in Range(trace)
DeliveredGpuSourceToHostBuffer ==
  /\ last.op = "Send"
  /\ \E i \in 1..Len(last.srv.output_tensors_) : GpuSourceHostBuffer(i)

\* The descriptor only the branch of lines 334-344 appends.
HoldsHostBufferDescriptor ==
  \E k \in 1..Len(output_buffers) : output_buffers[k].data_ptr = "nullptr"

DeferredAtReturn ==
  DeliveredGpuSourceToHostBuffer =>
    /\ requires_deferred_callback
    /\ sent[last.d] = <<>>
    /\ SendCalls(last.d) = <<>>
    /\ srv.deferred_send_callback_ = last.d

\* C3 as stated: a delivery with a GPU-source output in a host buffer is
\* deferred at the return of Send, and its send is invoked only when
\* DeferredSendCallback is run afterwards.
C3_SentOnlyByDeferredSendCallback ==
  /\ DeferredAtReturn
  /\ (HoldsHostBufferDescriptor /\ Calls("TRITONBACKEND_ResponseSend") # <<>>)
     => last.op = "DeferredSendCallback"

\* C3 amended: such a delivery is deferred at the return of Send; its send
\* stays uninvoked while the action is stored on the response, and is
\* invoked when the stored action is released: by DeferredSendCallback, or
\* by the destruction of the response when DeferredSendCallback was not run.
C3_DeferredUntilStoredActionReleased ==
  /\ DeferredAtReturn
  /\ \A d \in Deliveries : srv.deferred_send_callback_ = d => sent[d] = <<>>
  /\ (/\ last.op \in {"DeferredSendCallback", "~InferResponse"}
      /\ last.deferred_send_callback # 0)
     => /\ SentOnce(last.deferred_send_callback)
        /\ SendCalls(last.deferred_send_callback) # <<>>
        /\ srv.deferred_send_callback_ = 0

\* DeferredSendCallback has dispatched a delivery that left a GPU-source
\* tensor in a host buffer.
C3_Witness ==
  /\ last.op = "DeferredSendCallback"
  /\ last.deferred_send_callback = 1
  /\ HoldsHostBufferDescriptor
  /\ Len(sent[1]) = 1

AllHostDelivery ==
  /\ last.op = "Send"
  /\ last.srv.error_ = NullError
  /\ NoCallFailed
  /\ \A i \in 1..Len(last.srv.output_tensors_) :
       last.srv.output_tensors_[i].memory_type # "GPU"

\* C4: an all-host delivery without error and without failing call is
\* complete at the return of Send: the send has fired, CopyBuffer ran once
\* per output in output order, no deferral is required, nothing is stored
\* on the response and no descriptor is appended.
C4_AllHostDeliveryIsSynchronous ==
  AllHostDelivery =>
    /\ sent[last.d] = <<NullError>>
    /\ Len(SendCalls(last.d)) = 1
    /\ Calls("CopyBuffer") =
         [i \in 1..Len(last.srv.output_tensors_) |-> Ev("CopyBuffer", i)]
    /\ ~requires_deferred_callback
    /\ srv.deferred_send_callback_ = last.deferred_send_callback
    /\ output_buffers = last.output_buffers

C4_Witness ==
  /\ AllHostDelivery
  /\ Len(last.srv.output_tensors_) = 2
  /\ last.env[2].cuda_used

ErrorDelivery == last.op = "Send" /\ last.srv.error_ # NullError

ErrorShortCircuit ==
  /\ \A k \in 1..Len(trace) : trace[k].call \notin OutputCalls
  /\ output_buffers = last.output_buffers
  /\ ~requires_deferred_callback
  /\ slot[last.d] = last.srv.error_
  /\ sent[last.d] = <<last.srv.error_>>

\* C5 as stated: Send on a response with an error makes no output-buffer
\* call, leaves output_buffers and requires_deferred_callback alone, and
\* the error in the slot and passed to the send is the response's error.
C5_ErrorResponseSendsItsError == ErrorDelivery => ErrorShortCircuit

\* C5 amended: the same, for a Send whose channel exists (handed in, or
\* created from the factory); when the creation of the channel fails, the
\* slot holds that failure and nothing is sent.
C5_ErrorResponseWithChannelSendsItsError ==
  /\ (ErrorDelivery /\ ChannelObtained) => ErrorShortCircuit
  /\ (ErrorDelivery /\ ~ChannelObtained)
     => /\ slot[last.d] = "TRITONBACKEND_ResponseNewFromFactory"
        /\ sent[last.d] = <<>>

C5_Witness ==
  /\ ErrorDelivery
  /\ ChannelObtained
  /\ Len(last.srv.output_tensors_) = 2
  /\ last.srv.output_tensors_[1].memory_type = "GPU"
  /\ sent[last.d] = <<"user error">>

\* C6: Send returns the wrapped error slot, non-null, on every exit path,
\* and the error in it is null exactly when the delivery succeeded.
C6_SendReturnsTheSlot ==
  last.op = "Send" =>
    /\ ret = last.d
    /\ (slot[last.d] = NullError)
         <=> (last.srv.error_ = NullError /\ NoCallFailed)

\* The saves that wrote the record at handle h, and the record loaded last.
SavedAt(h) == {k \in 1..Len(saved) : saved[k].handle = h}
LoadedRecord == arena[last.response_handle]

\* C7: a response without error, saved and then loaded, comes back with as
\* many output tensors, in the same order, each loaded from the handle its
\* tensor was saved at, with no error and the handle of the saved record.
C7_RoundTripOfOutputs ==
  last.op = "LoadFromSharedMemory" =>
    \A k \in SavedAt(last.response_handle) :
      saved[k].error = NullError =>
        /\ Len(srv.output_tensors_) = Len(saved[k].output_tensors)
        /\ Len(trace) = Len(saved[k].output_tensors)
        /\ \A i \in 1..Len(saved[k].output_tensors) :
             /\ trace[i].call = "PbTensor::LoadFromSharedMemory"
             /\ trace[i].arg \in 1..Len(arena)
             /\ arena[trace[i].arg] =
                  [kind |-> "tensor", tensor |-> saved[k].output_tensors[i]]
             /\ srv.output_tensors_[i] = arena[trace[i].arg].tensor
             /\ \A j \in 1..Len(saved[k].output_tensors) :
                  i # j => trace[i].arg # trace[j].arg
        /\ ~HasError(srv)
        /\ ShmHandle(srv) = saved[k].handle

C7_Witness ==
  /\ last.op = "LoadFromSharedMemory"
  /\ saved[1].error = NullError
  /\ Len(srv.output_tensors_) = 2
  /\ srv.output_tensors_[1] # srv.output_tensors_[2]

\* C8: a response with an error, whatever its outputs, saved and then
\* loaded, comes back with the error loaded from the handle the error was
\* saved at (same message) and with no output: no tensor was saved, none is
\* loaded.
C8_RoundTripOfError ==
  last.op = "LoadFromSharedMemory" =>
    \A k \in SavedAt(last.response_handle) :
      (saved[k].error # NullError /\ LoadedRecord.is_error_set) =>
        /\ HasError(srv)
        /\ srv.error_ = saved[k].error
        /\ trace = <<Ev("PbError::LoadFromSharedMemory",
                        last.response_handle + 1)>>
        /\ arena[last.response_handle + 1] =
             [kind |-> "error", message |-> saved[k].error]
        /\ (last.response_handle + 2 <= Len(arena))
             => arena[last.response_handle + 2].kind = "response"
        /\ LoadedRecord.handles = <<>>
        /\ srv.output_tensors_ = <<>>

C8_Witness ==
  /\ last.op = "LoadFromSharedMemory"
  /\ saved[1].error = "user error"
  /\ Len(saved[1].output_tensors) = 2
  /\ srv.error_ = "user error"

\* C9: a record with has_error set and is_error_set clear loads as a
\* response with the placeholder error, and no handle of the record is
\* read: neither the error handle nor a trailing tensor handle, whatever
\* outputs_size holds.
C9_UnsetErrorLoadsPlaceholder ==
  (/\ last.op = "LoadFromSharedMemory"
   /\ last.record.has_error
   /\ ~last.record.is_error_set)
  => /\ srv.error_ = PlaceholderMessage
     /\ HasError(srv)
     /\ trace = <<>>
     /\ srv.output_tensors_ = <<>>

C9_Witness ==
  /\ last.op = "LoadFromSharedMemory"
  /\ last.record.has_error
  /\ ~last.record.is_error_set
  /\ last.record.outputs_size = MaxOutputs
  /\ srv.error_ = PlaceholderMessage

\* C10: a constructor given an output list with a null tensor, at any
\* position, throws before it stores the list, before it takes the future
\* from the promise and without allocating in the arena.
C10_NullTensorFailsConstruction ==
  (last.op = "InferResponse" /\ NullTensor \in Range(last.output_tensors)) =>
    /\ thrown = NullTensorMessage
    /\ stub = NoObject
    /\ Calls("promise->get_future") = <<>>
    /\ Len(arena) = last.arena_len

C10_Witness ==
  /\ last.op = "InferResponse"
  /\ Len(last.output_tensors) = 2
  /\ last.output_tensors[1] # NullTensor
  /\ last.output_tensors[2] = NullTensor
  /\ last.with_promise
  /\ thrown = NullTensorMessage

Pruned == last.op = "PruneOutputTensors"
PrunedOutputs == Obj(last.who).output_tensors_
\* The positions of the sequence before pruning whose tensor is requested.
Requested ==
  {i \in 1..Len(last.output_tensors) :
     last.output_tensors[i].name \in last.requested_output_names}
Occurrences(tensors, name) ==
  Cardinality({i \in 1..Len(tensors) : tensors[i].name = name})

\* C11: PruneOutputTensors leaves exactly the tensors whose name is in the
\* requested set, in their original relative order (the k-th tensor left is
\* the tensor at the k-th requested position), and pruning the result again
\* with the same set changes nothing.
C11_PruneKeepsRequestedInOrder ==
  Pruned =>
    /\ Len(PrunedOutputs) = Cardinality(Requested)
    /\ \A i \in Requested :
         PrunedOutputs[Cardinality({j \in Requested : j < i}) + 1]
           = last.output_tensors[i]
    /\ Erase(PrunedOutputs, last.requested_output_names) = PrunedOutputs

\* Two unrequested tensors in a row were erased, the requested one is left.
C11_Witness ==
  /\ Pruned
  /\ Len(last.output_tensors) = 2
  /\ last.output_tensors[1].name = "OUT1"
  /\ last.output_tensors[2].name = "OUT0"
  /\ last.requested_output_names = {"OUT0"}
  /\ PrunedOutputs = <<last.output_tensors[2]>>

\* C12 as stated: after PruneOutputTensors the names of the output tensors
\* are pairwise distinct, whatever the sequence was before.
C12_PrunedNamesAreDistinct ==
  Pruned =>
    \A i, j \in 1..Len(PrunedOutputs) :
      i # j => PrunedOutputs[i].name # PrunedOutputs[j].name

\* C12 amended: after PruneOutputTensors every name in the output sequence
\* is a requested name, and a requested name occurs as often as it did
\* before: the names are pairwise distinct exactly when the requested names
\* occurred once before, pruning removes no duplicate.
C12_PruneKeepsEveryRequestedOccurrence ==
  Pruned =>
    /\ \A i \in 1..Len(PrunedOutputs) :
         PrunedOutputs[i].name \in last.requested_output_names
    /\ \A name \in last.requested_output_names :
         Occurrences(PrunedOutputs, name) =
           Occurrences(last.output_tensors, name)

\* Two tensors of one requested name are both left.
C12_Witness ==
  /\ Pruned
  /\ Len(PrunedOutputs) = 2
  /\ PrunedOutputs[1].name = PrunedOutputs[2].name
  /\ PrunedOutputs[1] # PrunedOutputs[2]

\* The releases of the factory made for delivery d by the last operation.
FactoryReleases(d) ==
  SelectSeq(trace, LAMBDA e : e = Ev("ResponseFactoryDeleter", d))

\* C13: the send action of a Send releases the response factory only if
\* that Send created the channel (it was given no response) and its flags
\* are TRITONSERVER_RESPONSE_COMPLETE_FINAL, and only right after it has
\* issued its send; a Send given a channel, or non-final flags, never
\* releases it, at its return or when its stored action runs later.
C13_FactoryReleasedOnlyByFinalCreator ==
  /\ \A d \in Deliveries :
       /\ released[d] > 0 =>
            /\ task[d].response
            /\ task[d].destruct_response_factor
            /\ task[d].flags = TRITONSERVER_RESPONSE_COMPLETE_FINAL
            /\ Len(sent[d]) = 1
       /\ (task[d].response /\ ~task[d].destruct_response_factor)
            => released[d] = 0
       /\ (task[d].response
              /\ task[d].flags # TRITONSERVER_RESPONSE_COMPLETE_FINAL)
            => released[d] = 0
  /\ last.op = "Send" =>
       /\ task[last.d].response =>
            /\ task[last.d].destruct_response_factor = ~last.response_given
            /\ task[last.d].flags = last.flags
       /\ (last.response_given
              \/ last.flags # TRITONSERVER_RESPONSE_COMPLETE_FINAL)
            => (released[last.d] = 0 /\ FactoryReleases(last.d) = <<>>)
  /\ \A k \in 1..Len(trace) :
       trace[k].call = "ResponseFactoryDeleter" =>
         /\ k > 1
         /\ trace[k - 1] = Ev("TRITONBACKEND_ResponseSend", trace[k].arg)
         /\ released[trace[k].arg] = 1

\* A deferred delivery that created its channel, with final flags, has been
\* sent by DeferredSendCallback, which released the factory after the send.
C13_Witness ==
  /\ last.op = "DeferredSendCallback"
  /\ trace = <<Ev("TRITONBACKEND_ResponseSend", 1),
               Ev("ResponseFactoryDeleter", 1)>>
  /\ released[1] = 1

\* The record of the k-th SaveToSharedMemory.
SavedRecord(k) == arena[saved[k].handle]

CurrentRecord == arena[stub.shm_handle_]
CurrentSave == saved[Len(saved)]
ErrorNotYetSerialized == pc \in {"L107", "L108"}

\* C15 as stated: in SaveToSharedMemory of a response with an error, as
\* long as the error value has not been serialized the record has
\* has_error = false and is_error_set = false.
C15_HasErrorClearUntilErrorSerialized ==
  ErrorNotYetSerialized =>
    (~CurrentRecord.has_error /\ ~CurrentRecord.is_error_set)

\* C15 amended: has_error is set to true first, then the error value is
\* serialized, and only afterwards is_error_set, the error handle and
\* outputs_size = 0 are written; as long as the error value has not been
\* serialized is_error_set is false, and is_error_set is true only in a
\* record whose error field is the handle of the serialized error.
C15_HasErrorSetBeforeErrorSerialized ==
  /\ pc = "L107" =>
       (~CurrentRecord.has_error /\ ~CurrentRecord.is_error_set)
  /\ pc = "L108" =>
       /\ CurrentRecord.has_error
       /\ ~CurrentRecord.is_error_set
       /\ Len(arena) = stub.shm_handle_
  /\ pc = "L110" =>
       /\ CurrentRecord.has_error
       /\ ~CurrentRecord.is_error_set
       /\ stub.error_handle = stub.shm_handle_ + 1
       /\ arena[stub.error_handle] =
            [kind |-> "error", message |-> CurrentSave.error]
  /\ \A h \in ResponseRecords :
       arena[h].is_error_set =>
         /\ arena[h].has_error
         /\ arena[h].outputs_size = 0
         /\ arena[h].error = h + 1
         /\ arena[h + 1].kind = "error"
  /\ \A k \in 1..Len(saved) :
       (saved[k].returned /\ saved[k].error # NullError) =>
         /\ SavedRecord(k).is_error_set
         /\ arena[SavedRecord(k).error] =
              [kind |-> "error", message |-> saved[k].error]

\* SaveToSharedMemory stands before line 108: has_error is already true and
\* the error value is not in the arena.
C15_Witness ==
  /\ pc = "L108"
  /\ CurrentSave.error = "user error"
  /\ CurrentRecord.has_error
  /\ Len(arena) = stub.shm_handle_

\* The calls the output loop of the last Send made, and the output whose
\* call failed.
OutputTrace == SelectSeq(trace, LAMBDA e : e.call \in OutputCalls)
FailedAt(k) ==
  /\ last.op = "Send"
  /\ ChannelObtained
  /\ last.srv.error_ = NullError
  /\ k \in 1..Len(last.env)
  /\ last.env[k].fail # NoFailure

\* C16: when a runtime call or a copy fails at output k, Send returns at
\* once with that failure in the slot: the failing call is the last call of
\* the loop, no call is made and no descriptor appended for an output after
\* k, the stream is not synchronized; the send action of the call still
\* runs (at the return of Send, or when the stored action is released) and
\* passes that failure to TRITONBACKEND_ResponseSend.
C16_FailureStopsLoopAndIsSent ==
  /\ \A k \in 1..MaxOutputs + 1 :
       FailedAt(k) =>
         /\ slot[last.d] = last.env[k].fail
         /\ ret = last.d
         /\ OutputTrace # <<>>
         /\ OutputTrace[Len(OutputTrace)] = Ev(last.env[k].fail, k)
         /\ \A n \in 1..Len(OutputTrace) : OutputTrace[n].arg <= k
         /\ \A n \in Len(last.output_buffers) + 1..Len(output_buffers) :
              output_buffers[n].output < k
         /\ Calls("cudaStreamSynchronize") = <<>>
         /\ task[last.d].response
         /\ IF requires_deferred_callback
              THEN srv.deferred_send_callback_ = last.d
              ELSE sent[last.d] = <<last.env[k].fail>>
  /\ \A d \in 1..nsend :
       /\ sent[d] # <<>> => sent[d] = <<slot[d]>>
       /\ (task[d].response /\ sent[d] = <<>>)
            => (srv.st = "live" /\ srv.deferred_send_callback_ = d)
  /\ (/\ last.op \in {"DeferredSendCallback", "~InferResponse"}
      /\ last.deferred_send_callback # 0)
     => sent[last.deferred_send_callback] =
          <<slot[last.deferred_send_callback]>>

\* The copy of the first of two host tensors failed: the failure was sent
\* at the return of Send and the second tensor was not touched.
C16_Witness ==
  /\ FailedAt(1)
  /\ Len(last.srv.output_tensors_) = 2
  /\ last.env[1].fail = "CopyBuffer"
  /\ sent[last.d] = <<"CopyBuffer">>

LoopCompleted ==
  last.op = "Send" /\ last.srv.error_ = NullError /\ NoCallFailed
\* A copy of a host-source tensor of the last Send reported cuda_used.
AsyncHostCopy ==
  \E i \in 1..Len(last.env) :
    /\ last.srv.output_tensors_[i].memory_type # "GPU"
    /\ last.env[i].cuda_used
Synchronizations == Calls("cudaStreamSynchronize")

\* C17: in a Send whose output loop completes, cudaStreamSynchronize is
\* called (once) exactly when a copy of a host-source tensor reported
\* cuda_used; it is called after the last call of the loop and before any
\* send action fires, hence before Send returns; a delivery whose tensors
\* all have GPU source never synchronizes, and neither does any operation
\* other than Send.
C17_SynchronizedIffAsyncHostCopy ==
  /\ LoopCompleted =>
       /\ Len(Synchronizations) = (IF AsyncHostCopy THEN 1 ELSE 0)
       /\ (\A i \in 1..Len(last.srv.output_tensors_) :
              last.srv.output_tensors_[i].memory_type = "GPU")
            => Synchronizations = <<>>
  /\ \A k \in 1..Len(trace) :
       trace[k].call = "cudaStreamSynchronize" =>
         /\ LoopCompleted
         /\ \A j \in 1..Len(trace) :
              /\ trace[j].call \in OutputCalls => j < k
              /\ trace[j].call \in {"TRITONBACKEND_ResponseSend",
                                    "ResponseFactoryDeleter"} => j > k

\* A GPU-source tensor and a host-source tensor whose copy was asynchronous:
\* the stream was synchronized in Send, the send is deferred.
C17_Witness ==
  /\ LoopCompleted
  /\ Len(last.srv.output_tensors_) = 2
  /\ last.srv.output_tensors_[1].memory_type = "GPU"
  /\ last.env[2].cuda_used
  /\ Len(Synchronizations) = 1
  /\ requires_deferred_callback
  /\ sent[last.d] = <<>>

CallbackWithoutStoredAction ==
  last.op = "DeferredSendCallback" /\ last.deferred_send_callback = 0

\* C18: DeferredSendCallback on a response that holds no stored send action
\* (never delivered, delivered without a GPU-source output, or already
\* completed) makes no call: no TRITONBACKEND_ResponseSend, no release of
\* the factory; what was sent and released before stays as it was, and so
\* do the response's outputs, error and arena handle.
C18_CallbackWithoutActionIsNoOp ==
  CallbackWithoutStoredAction =>
    /\ trace = <<>>
    /\ sent = last.sent
    /\ released = last.released
    /\ srv.output_tensors_ = last.srv.output_tensors_
    /\ srv.error_ = last.srv.error_
    /\ srv.shm_handle_ = last.srv.shm_handle_
    /\ srv.deferred_send_callback_ = 0

\* DeferredSendCallback after a delivery of host tensors only, which was
\* sent at the return of Send.
C18_Witness ==
  /\ CallbackWithoutStoredAction
  /\ nsend = 1
  /\ task[1].response
  /\ ~requires_deferred_callback
  /\ Len(srv.output_tensors_) = 2
  /\ srv.error_ = NullError
  /\ Len(sent[1]) = 1

\* The outputs the last Send processed without failure, those of them with
\* GPU source, and the descriptors the Send appended.
Processed ==
  IF last.op = "Send" /\ ChannelObtained /\ last.srv.error_ = NullError
    THEN {i \in 1..Len(last.env) :
            \A j \in 1..i : last.env[j].fail = NoFailure}
    ELSE {}
GpuProcessed ==
  {i \in Processed : last.srv.output_tensors_[i].memory_type = "GPU"}
Appended ==
  SubSeq(output_buffers, Len(last.output_buffers) + 1, Len(output_buffers))
ZeroCopy(descriptor) == ~descriptor.copy_gpu

\* C19: Send appends to output_buffers exactly one descriptor per output
\* tensor with GPU source it processed without failure, in output order,
\* each naming the buffer allocated for its output: zero-copy with the IPC
\* handle when the buffer is GPU memory and a handle is available,
\* copy-required without handle when the buffer is GPU memory and no handle
\* is available, copy-required with a null data pointer when the buffer is
\* host memory; nothing is appended for a tensor with host source, and the
\* descriptors already in output_buffers stay.
C19_OneDescriptorPerGpuSourceTensor ==
  last.op = "Send" =>
    /\ Len(output_buffers) = Len(last.output_buffers) + Cardinality(GpuProcessed)
    /\ SubSeq(output_buffers, 1, Len(last.output_buffers)) = last.output_buffers
    /\ \A i \in GpuProcessed :
         LET descriptor ==
               Appended[Cardinality({j \in GpuProcessed : j < i}) + 1]
             buffer_memory_type == last.env[i].actual_memory_type
         IN /\ descriptor.output = i
            /\ descriptor.memory_type = buffer_memory_type
            /\ IF buffer_memory_type = "GPU"
                 THEN /\ descriptor.data_ptr = "buffer"
                      /\ ZeroCopy(descriptor) = last.env[i].ipc
                      /\ descriptor.cuda_ipc_handle = last.env[i].ipc
                 ELSE /\ descriptor.data_ptr = "nullptr"
                      /\ ~ZeroCopy(descriptor)
                      /\ ~descriptor.cuda_ipc_handle

\* Two GPU-source tensors: the first got a GPU buffer with an IPC handle,
\* the second a pinned host buffer.
C19_Witness ==
  /\ last.op = "Send"
  /\ GpuProcessed = {1, 2}
  /\ last.env[1].ipc
  /\ last.env[2].actual_memory_type = "CPU_PINNED"
  /\ Len(output_buffers) = 2
  /\ ZeroCopy(output_buffers[1])
  /\ output_buffers[2].data_ptr = "nullptr"

\* C20: GetNextResponse returns the next-response future exactly on the
\* first call on a response built by the constructor taking a promise;
\* every later call, and every call on a response built by the plain
\* constructor or by LoadFromSharedMemory, returns nothing; after any call
\* the response holds no future.
C20_GetNextResponseIsDestructive ==
  /\ last.op = "GetNextResponse" =>
       /\ last.returned = (Obj(last.who).with_promise /\ ~last.retrieved)
       /\ ~Obj(last.who).next_response_future_
       /\ last.who = "srv" => ~last.returned
  /\ \A w \in {"stub", "srv"} :
       Obj(w).next_response_future_ =>
         (Obj(w).with_promise /\ ~Obj(w).retrieved)
  /\ ~srv.with_promise

\* The second GetNextResponse on a response built with a promise.
C20_Witness ==
  /\ last.op = "GetNextResponse"
  /\ last.who = "stub"
  /\ stub.with_promise
  /\ last.retrieved
  /\ ~last.returned

====
